---- MODULE Spec2Model ----
(***************************************************************************)
(* Model of script/solar_suitability.py: the multi-criteria suitability    *)
(* pipeline (slope, aspect, solar radiation, distance to roads ->          *)
(* weighted sum -> best zones -> map).                                     *)
(*                                                                         *)
(* Units.  Raster cells hold integers: slope and aspect in degrees,        *)
(* distance in metres, solar radiation in a unit in which every positive   *)
(* reading is a multiple of 5 (so that the linear interpolation of         *)
(* np.percentile at 0, 20, ..., 100 % is exact in integers), suitability   *)
(* in tenths (4.5 is 45).                                                  *)
(*                                                                         *)
(* Library calls are modelled by their documented behaviour:               *)
(*  - Reclassify(raster, "VALUE", RemapRange(...)) with the default        *)
(*    missing_values="DATA": NoData stays NoData; a value inside a range   *)
(*    gets the range's new value, a value on the boundary shared by two    *)
(*    ranges is assigned to the lower range (1-5 and 5-10: a value <= 5    *)
(*    gets the first, 5.01 the second); a value in no range keeps its      *)
(*    original value.                                                      *)
(*  - map algebra (times, plus, >=, Con, ExtractByMask) is cell by cell   *)
(*    and yields NoData wherever an operand is NoData; Con without a false *)
(*    value yields NoData where the condition is false.                    *)
(*  - RasterToPolygon makes one polygon per edge-connected group of cells. *)
(*  - np.percentile interpolates linearly between order statistics.        *)
(***************************************************************************)
EXTENDS Integers, Sequences, FiniteSets, TLC

VARIABLES
    pc,             \* position of main(): the stage that runs next, or "done"
    started,        \* the stages main() has called so far, in order
    failed,         \* the stage whose call raised, or "none"
    cause,          \* what was raised there, or "none"
    message,        \* what main() printed at its end, or "none"
    license,        \* the Spatial Analyst extension is checked out
    files,          \* names of the output files written under results/
    grid,           \* header of dem.tif: [width, height]
    terrain,        \* what the derivations yield on the input data
    mask_path,      \* the optional mask: "None" or the set of cells inside it
    min_area_ha,    \* argument of extract_best_zones
    slope_score, aspect_score, solar_score, distance_score,
    suitability,    \* return value of calculate_suitability
    final_zones     \* features of selected_zones.shp (each a set of cells)

vars == <<pc, started, failed, cause, message, license, files, grid, terrain,
          mask_path, min_area_ha, slope_score, aspect_score, solar_score,
          distance_score, suitability, final_zones>>

-----------------------------------------------------------------------------
(* Bounds *)

\* largest number of cells of the DEM grid in a pipeline run
MaxCells == 3
\* number of cells of the rasters handed to a direct call of calculate_suitability
OverlayCells == 1

-----------------------------------------------------------------------------
(* Rasters *)

\* the NoData value of a float raster as RasterToNumPyArray hands it over:
\* a large negative number, which "solar_array > 0" leaves out
NoData == -9999

\* a local of main() that holds no raster yet
Unset == <<>>

Min(S) == CHOOSE x \in S : \A y \in S : x <= y
Max(S) == CHOOSE x \in S : \A y \in S : y <= x

Range(s) == {s[i] : i \in DOMAIN s}

-----------------------------------------------------------------------------
(* Reclassify with RemapRange *)

\* rows of the remap table whose closed range holds v
Matching(v, remap) == {i \in DOMAIN remap : remap[i][1] <= v /\ v <= remap[i][2]}

\* a variant that treats ranges as lower-inclusive, upper-exclusive:
\* on a shared boundary the higher range wins
PickRowHalfOpen(rows, remap) ==
    CHOOSE i \in rows : \A j \in rows :
        remap[i][1] > remap[j][1] \/ (remap[i][1] = remap[j][1] /\ i >= j)

\* on a boundary shared by two ranges the lower range wins
PickRow(rows, remap) ==
    CHOOSE i \in rows : \A j \in rows :
        remap[i][1] < remap[j][1] \/ (remap[i][1] = remap[j][1] /\ i <= j)

\* missing_values defaults to "DATA": a value in no range keeps its value
Missing(v) == v

ReclassValue(v, remap) ==
    IF v = NoData THEN NoData
    ELSE IF Matching(v, remap) = {} THEN Missing(v)
    ELSE remap[PickRow(Matching(v, remap), remap)][3]

Reclassify(raster, remap) == [i \in DOMAIN raster |-> ReclassValue(raster[i], remap)]

SlopeRemap == << <<0, 5, 5>>, <<5, 10, 4>>, <<10, 15, 3>>, <<15, 20, 2>>, <<20, 90, 1>> >>

AspectRemap == << <<0, 45, 2>>, <<45, 135, 4>>, <<135, 225, 5>>, <<225, 315, 4>>,
                  <<315, 360, 2>>, <<-1, 0, 3>> >>

DistanceRemap == << <<0, 500, 5>>, <<500, 1000, 4>>, <<1000, 2000, 3>>,
                    <<2000, 3000, 2>>, <<3000, 100000, 1>> >>

Scores(remap) == {remap[i][3] : i \in DOMAIN remap}

-----------------------------------------------------------------------------
(* Quantile breaks of the solar radiation *)

NClasses == 5

\* valid_values = solar_array[solar_array > 0]
ValidValues(raster) == SelectSeq(raster, LAMBDA v : v > 0)

RECURSIVE Sorted(_)
Sorted(s) ==
    IF s = <<>> THEN <<>>
    ELSE LET m == Min(Range(s))
             k == Min({i \in DOMAIN s : s[i] = m})
         IN  <<m>> \o Sorted(SubSeq(s, 1, k - 1) \o SubSeq(s, k + 1, Len(s)))

\* np.percentile(vals, k * 100 / NClasses): position k*(n-1)/NClasses among the
\* order statistics, linear interpolation between the two neighbours
Percentile(vals, k) ==
    LET s == Sorted(vals)
        p == k * (Len(s) - 1)
        j == p \div NClasses
        r == p % NClasses
    IN  IF r = 0 THEN s[j + 1]
        ELSE s[j + 1] + ((s[j + 2] - s[j + 1]) * r) \div NClasses

Breaks(vals) == [k \in 0..NClasses |-> Percentile(vals, k)]

\* a variant that scores the classes in descending order, as the slope table does
SolarRemapDescending(breaks) ==
    [k \in 1..NClasses |-> <<breaks[k - 1], breaks[k], NClasses + 1 - k>>]

\* the five ranges between consecutive breaks, scored 1..5 ascending
SolarRemap(breaks) == [k \in 1..NClasses |-> <<breaks[k - 1], breaks[k], k>>]

-----------------------------------------------------------------------------
(* Weighted sum and mask *)

\* the weights 0.3, 0.2, 0.4, 0.1 in tenths
WSlope == 3
WAspect == 2
WSolar == 4
WDistance == 1

\* a variant that lets a NoData operand count as 0 (a partial sum)
WeightedCellPartial(s, a, r, d) ==
    LET Z(x) == IF x = NoData THEN 0 ELSE x
    IN  WSlope * Z(s) + WAspect * Z(a) + WSolar * Z(r) + WDistance * Z(d)

\* a variant whose weights sum to 1.1
WeightedCellHeavy(s, a, r, d) ==
    IF NoData \in {s, a, r, d} THEN NoData
    ELSE WSlope * s + WAspect * a + (WSolar + 1) * r + WDistance * d

\* 0.3 * slope + 0.2 * aspect + 0.4 * solar + 0.1 * distance at one cell, in tenths
WeightedCell(s, a, r, d) ==
    IF NoData \in {s, a, r, d} THEN NoData
    ELSE WSlope * s + WAspect * a + WSolar * r + WDistance * d

WeightedSum(ss, as, rs, ds) ==
    [i \in DOMAIN ss |-> WeightedCell(ss[i], as[i], rs[i], ds[i])]

\* ExtractByMask: cells outside the mask become NoData
ExtractByMask(raster, inside) ==
    [i \in DOMAIN raster |-> IF i \in inside THEN raster[i] ELSE NoData]

NoMask == [given |-> FALSE, inside |-> {}]

Suitability(ss, as, rs, ds, mask) ==
    IF mask.given THEN ExtractByMask(WeightedSum(ss, as, rs, ds), mask.inside)
    ELSE WeightedSum(ss, as, rs, ds)

-----------------------------------------------------------------------------
(* Best zones *)

\* 4.5 in tenths
Threshold == 45

\* default of min_area_ha
MinAreaDefault == 2

\* Con(suitability >= 4.5, 1): the cells that hold 1; all others are NoData
BestCells(surface) ==
    {i \in DOMAIN surface : surface[i] # NoData /\ surface[i] >= Threshold}

\* cells i and j of a row-major grid of width w share an edge
Adjacent(i, j, w) ==
    \/ i - j = w
    \/ j - i = w
    \/ (i - j = 1 /\ (j - 1) \div w = (i - 1) \div w)
    \/ (j - i = 1 /\ (j - 1) \div w = (i - 1) \div w)

RECURSIVE Grow(_, _, _)
Grow(R, S, w) ==
    LET R2 == R \cup {j \in S : \E i \in R : Adjacent(i, j, w)}
    IN  IF R2 = R THEN R ELSE Grow(R2, S, w)

\* RasterToPolygon(best_zones, ..., "NO_SIMPLIFY"): one polygon per connected group
Polygons(S, w) == {Grow({c}, S, w) : c \in S}

\* Area_Ha >= min_area_ha, with Area_Ha = shape.area in hectares
LargeEnough(poly, cell_size, min_ha) ==
    Cardinality(poly) * cell_size * cell_size >= min_ha * 10000

SelectedZones(surface, g, min_ha) ==
    {p \in Polygons(BestCells(surface), g.width) : LargeEnough(p, g.cell_size, min_ha)}

-----------------------------------------------------------------------------
(* Input data *)

CellSizes == {100}

\* grid headers of at most n cells
Shapes(n) ==
    {g \in [width : 1..n, height : 1..n, cell_size : CellSizes] :
        g.width * g.height <= n}

\* what Slope, Aspect, AreaSolarRadiation and EucDistance yield at one cell:
\* slope in 0..90, aspect -1 (flat) or 0..360, radiation >= 0, distance >= 0,
\* or NoData
CellKinds ==
    { [slope |-> 3,      aspect |-> 180,    solar |-> 25,     dist |-> 100],
      [slope |-> 5,      aspect |-> 45,     solar |-> 10,     dist |-> 500],
      [slope |-> 20,     aspect |-> 90,     solar |-> 15,     dist |-> 3000],
      [slope |-> 90,     aspect |-> 360,    solar |-> 5,      dist |-> 100000],
      [slope |-> 0,      aspect |-> -1,     solar |-> 0,      dist |-> 100001],
      [slope |-> NoData, aspect |-> NoData, solar |-> NoData, dist |-> 1500],
      [slope |-> 12,     aspect |-> 300,    solar |-> 25,     dist |-> NoData] }

Cells(g) == 1..(g.width * g.height)

Terrains(g) ==
    {[slope    |-> [i \in Cells(g) |-> f[i].slope],
      aspect   |-> [i \in Cells(g) |-> f[i].aspect],
      solar    |-> [i \in Cells(g) |-> f[i].solar],
      distance |-> [i \in Cells(g) |-> f[i].dist]] : f \in [Cells(g) -> CellKinds]}

\* no derivation has run (a direct call of a later stage)
NoTerrain == [slope |-> <<>>, aspect |-> <<>>, solar |-> <<>>, distance |-> <<>>]

-----------------------------------------------------------------------------
(* main() *)

StageOrder == <<"setup", "check", "slope", "aspect", "solar", "distance",
                "overlay", "zones", "map">>

\* the files a stage writes, in the order it writes them
StageOutputs(stage) ==
    CASE stage = "setup" -> <<"results/", "results/scores/", "results/output_zones/">>
      [] stage = "check" -> <<>>
      [] stage = "slope" -> <<"slope.tif", "scores/slope_score.tif">>
      [] stage = "aspect" -> <<"aspect.tif", "scores/aspect_score.tif">>
      [] stage = "solar" -> <<"solar.tif", "scores/solar_score.tif">>
      [] stage = "distance" -> <<"distance_to_roads.tif", "scores/distance_score.tif">>
      [] stage = "overlay" -> <<"suitability.tif">>
      [] stage = "zones" -> <<"output_zones/best_zones.tif", "output_zones/best_zones.shp",
                              "output_zones/selected_zones.shp">>
      [] stage = "map" -> <<"hillshade.tif", "solar_suitability.mxd",
                            "solar_suitability.pdf">>

\* the first n outputs of a stage
Written(stage, n) == {StageOutputs(stage)[i] : i \in 1..n}

AllOutputs(stage) == Written(stage, Len(StageOutputs(stage)))

ErrorMessages == {"ArcGIS error occurred", "An error occurred"}

MessageOf(why) ==
    IF why = "ExecuteError" THEN "ArcGIS error occurred" ELSE "An error occurred"

\* a variant in which main() goes on with the next stage after an exception
PcAfterExceptionContinue(stage) ==
    IF \E i \in 1..(Len(StageOrder) - 1) : StageOrder[i] = stage
    THEN StageOrder[(CHOOSE i \in 1..(Len(StageOrder) - 1) : StageOrder[i] = stage) + 1]
    ELSE "done"

\* the single try block of main(): an exception leaves it for good
PcAfterException(stage) == "done"

\* the stage raised `why`: the except clause prints msg, the finally clause
\* checks the extension in
Except(stage, why, msg) ==
    /\ pc' = PcAfterException(stage)
    /\ failed' = stage
    /\ cause' = why
    /\ message' = msg
    /\ license' = FALSE

NoExcept == UNCHANGED <<failed, cause, message, license>>

Begin(stage) ==
    /\ pc = stage
    /\ started' = Append(started, stage)

SetupEnvironment ==
    /\ Begin("setup")
    /\ \/ /\ Except("setup", "ValueError", MessageOf("ValueError"))
          /\ UNCHANGED files
       \/ /\ Except("setup", "RuntimeError", MessageOf("RuntimeError"))
          /\ UNCHANGED files
       \/ /\ pc' = "check"
          /\ license' = TRUE
          /\ files' = files \cup AllOutputs("setup")
          /\ UNCHANGED <<failed, cause, message>>
    /\ UNCHANGED <<grid, terrain, mask_path, min_area_ha, slope_score, aspect_score,
                   solar_score, distance_score, suitability, final_zones>>

CheckInputData ==
    /\ Begin("check")
    /\ \/ Except("check", "ValueError", MessageOf("ValueError"))
       \/ Except("check", "ExecuteError", MessageOf("ExecuteError"))
       \/ (pc' = "slope" /\ NoExcept)
    /\ UNCHANGED <<files, grid, terrain, mask_path, min_area_ha, slope_score,
                   aspect_score, solar_score, distance_score, suitability, final_zones>>

\* a stage of two tools and two saves: an ExecuteError in the derivation or its
\* save (nothing written), or in Reclassify or its save (the first file written)
ToolError(stage) ==
    \E n \in 0..(Len(StageOutputs(stage)) - 1) :
        /\ Except(stage, "ExecuteError", MessageOf("ExecuteError"))
        /\ files' = files \cup Written(stage, n)

Return(stage, next) ==
    /\ pc' = next
    /\ files' = files \cup AllOutputs(stage)
    /\ NoExcept

CalculateSlope ==
    /\ Begin("slope")
    /\ \/ (ToolError("slope") /\ UNCHANGED slope_score)
       \/ /\ Return("slope", "aspect")
          /\ slope_score' = Reclassify(terrain.slope, SlopeRemap)
    /\ UNCHANGED <<grid, terrain, mask_path, min_area_ha, aspect_score, solar_score,
                   distance_score, suitability, final_zones>>

CalculateAspect ==
    /\ Begin("aspect")
    /\ \/ (ToolError("aspect") /\ UNCHANGED aspect_score)
       \/ /\ Return("aspect", "solar")
          /\ aspect_score' = Reclassify(terrain.aspect, AspectRemap)
    /\ UNCHANGED <<grid, terrain, mask_path, min_area_ha, slope_score, solar_score,
                   distance_score, suitability, final_zones>>

\* with no value > 0 np.percentile has nothing to take the percentile of: it
\* raises, or yields nan breaks which the remap table of Reclassify rejects.
\* Either way the exception comes after solar.tif is saved.
CalculateSolarRadiation ==
    /\ Begin("solar")
    /\ \/ (ToolError("solar") /\ UNCHANGED solar_score)
       \/ /\ ValidValues(terrain.solar) = <<>>
          /\ \E msg \in ErrorMessages : Except("solar", "EmptySample", msg)
          /\ files' = files \cup Written("solar", 1)
          /\ UNCHANGED solar_score
       \/ /\ ValidValues(terrain.solar) # <<>>
          /\ Return("solar", "distance")
          /\ solar_score' = Reclassify(terrain.solar,
                                       SolarRemap(Breaks(ValidValues(terrain.solar))))
    /\ UNCHANGED <<grid, terrain, mask_path, min_area_ha, slope_score, aspect_score,
                   distance_score, suitability, final_zones>>

CalculateDistanceToRoads ==
    /\ Begin("distance")
    /\ \/ (ToolError("distance") /\ UNCHANGED distance_score)
       \/ /\ Return("distance", "overlay")
          /\ distance_score' = Reclassify(terrain.distance, DistanceRemap)
    /\ UNCHANGED <<grid, terrain, mask_path, min_area_ha, slope_score, aspect_score,
                   solar_score, suitability, final_zones>>

CalculateSuitability ==
    /\ Begin("overlay")
    /\ \/ (ToolError("overlay") /\ UNCHANGED suitability)
       \/ /\ Return("overlay", "zones")
          /\ suitability' = Suitability(slope_score, aspect_score, solar_score,
                                        distance_score, mask_path)
    /\ UNCHANGED <<grid, terrain, mask_path, min_area_ha, slope_score, aspect_score,
                   solar_score, distance_score, final_zones>>

ExtractBestZones ==
    /\ Begin("zones")
    /\ \/ (ToolError("zones") /\ UNCHANGED final_zones)
       \/ /\ Return("zones", "map")
          /\ final_zones' = SelectedZones(suitability, grid, min_area_ha)
    /\ UNCHANGED <<grid, terrain, mask_path, min_area_ha, slope_score, aspect_score,
                   solar_score, distance_score, suitability>>

\* arcpy.mapping may be missing (AttributeError) once hillshade.tif is saved
CreateHillshadeMap ==
    /\ Begin("map")
    /\ \/ ToolError("map")
       \/ /\ Except("map", "AttributeError", MessageOf("AttributeError"))
          /\ files' = files \cup Written("map", 1)
       \/ Return("map", "finish")
    /\ UNCHANGED <<grid, terrain, mask_path, min_area_ha, slope_score, aspect_score,
                   solar_score, distance_score, suitability, final_zones>>

\* the end of the try block and the finally clause
Finish ==
    /\ pc = "finish"
    /\ pc' = "done"
    /\ message' = "Analysis completed successfully!"
    /\ license' = FALSE
    /\ UNCHANGED <<started, failed, cause, files, grid, terrain, mask_path, min_area_ha,
                   slope_score, aspect_score, solar_score, distance_score, suitability,
                   final_zones>>

Init ==
    /\ pc = "setup"
    /\ started = <<>>
    /\ failed = "none"
    /\ cause = "none"
    /\ message = "none"
    /\ license = FALSE
    /\ files = {}
    /\ grid \in Shapes(MaxCells)
    /\ terrain \in Terrains(grid)
    /\ mask_path = NoMask
    /\ min_area_ha = MinAreaDefault
    /\ slope_score = Unset
    /\ aspect_score = Unset
    /\ solar_score = Unset
    /\ distance_score = Unset
    /\ suitability = Unset
    /\ final_zones = {}

Next ==
    \/ SetupEnvironment
    \/ CheckInputData
    \/ CalculateSlope
    \/ CalculateAspect
    \/ CalculateSolarRadiation
    \/ CalculateDistanceToRoads
    \/ CalculateSuitability
    \/ ExtractBestZones
    \/ CreateHillshadeMap
    \/ Finish

Spec == Init /\ [][Next]_vars

-----------------------------------------------------------------------------
(* A direct call of calculate_suitability(slope_score, aspect_score,          *)
(* solar_score, distance_score, output_dir, mask_path)                        *)

OverlayGrid == [width |-> OverlayCells, height |-> 1, cell_size |-> 100]

Masks(g) == {NoMask} \cup {[given |-> TRUE, inside |-> S] : S \in SUBSET Cells(g)}

InitOverlay ==
    /\ pc = "overlay"
    /\ started = <<>>
    /\ failed = "none"
    /\ cause = "none"
    /\ message = "none"
    /\ license = TRUE
    /\ files = {}
    /\ grid = OverlayGrid
    /\ terrain = NoTerrain
    /\ mask_path \in Masks(grid)
    /\ min_area_ha = MinAreaDefault
    /\ slope_score \in [Cells(grid) -> {NoData, 1, 2, 3, 4, 5}]
    /\ aspect_score \in [Cells(grid) -> {NoData, 2, 5}]
    /\ solar_score \in [Cells(grid) -> {NoData, 1, 5}]
    /\ distance_score \in [Cells(grid) -> {NoData, 1, 5}]
    /\ suitability = Unset
    /\ final_zones = {}

NextOverlay == CalculateSuitability

SpecOverlay == InitOverlay /\ [][NextOverlay]_vars

-----------------------------------------------------------------------------
(* Properties *)

IsSet(raster) == DOMAIN raster # {}

Valid(v) == v # NoData

\* the fixed-table classifications that have returned: <<input, output, table>>
FixedReturned ==
    {t \in { <<terrain.slope, slope_score, SlopeRemap>>,
             <<terrain.distance, distance_score, DistanceRemap>> } : IsSet(t[2])}

InTable(v, remap) == remap[1][1] <= v /\ v <= remap[Len(remap)][2]

\* the row [lo, hi) that holds v, the last row also holding its hi
HalfOpenRow(v, remap) ==
    CHOOSE k \in DOMAIN remap :
        \/ remap[k][1] <= v /\ v < remap[k][2]
        \/ k = Len(remap) /\ v = remap[k][2]

\* the row (lo, hi] that holds v, the first row also holding its lo
UpperClosedRow(v, remap) ==
    CHOOSE k \in DOMAIN remap :
        \/ remap[k][1] < v /\ v <= remap[k][2]
        \/ k = 1 /\ v = remap[k][1]

\* C1 as stated: with the slope and distance tables every valid value of the
\* table's domain gets the score of the interval [lo, hi) holding it (the last
\* interval also takes its hi): slope 5 gives 4.
C1_HalfOpenBoundary ==
    \A t \in FixedReturned : \A i \in DOMAIN t[1] :
        (Valid(t[1][i]) /\ InTable(t[1][i], t[3]))
            => t[2][i] = t[3][HalfOpenRow(t[1][i], t[3])][3]

\* C1 amended: with the slope and distance tables every valid value of the
\* table's domain gets the score of the interval (lo, hi] holding it, so a value
\* equal to a shared boundary gets the score of the interval where it is the
\* upper bound (slope 5 gives 5, not 4); only the first interval of the table
\* also accepts its lower bound.
C1_UpperInclusiveBoundary ==
    \A t \in FixedReturned : \A i \in DOMAIN t[1] :
        (Valid(t[1][i]) /\ InTable(t[1][i], t[3]))
            => t[2][i] = t[3][UpperClosedRow(t[1][i], t[3])][3]

\* a slope of exactly 5 degrees has been reclassified, to 5
C1_Witness ==
    /\ IsSet(slope_score)
    /\ \E i \in DOMAIN slope_score : terrain.slope[i] = 5 /\ slope_score[i] = 5

\* C2 as stated: a reclassification that returns (it did not fail) returns a
\* raster whose cells hold a declared score of its table or NoData, never the
\* original value.
C2_OnlyDeclaredScores ==
    \A t \in { <<slope_score, SlopeRemap>>, <<aspect_score, AspectRemap>>,
               <<distance_score, DistanceRemap>> } :
        IsSet(t[1]) => \A i \in DOMAIN t[1] : t[1][i] \in Scores(t[2]) \cup {NoData}

LowestSampled == Min(Range(ValidValues(terrain.solar)))
HighestSampled == Max(Range(ValidValues(terrain.solar)))
SolarBreaks == Breaks(ValidValues(terrain.solar))

NonDecreasing(b) == \A k \in 1..NClasses : b[k - 1] <= b[k]

ScoresOf(v) == {solar_score[i] : i \in {j \in DOMAIN solar_score : terrain.solar[j] = v}}

\* C6 as stated: for any non-empty sample the breaks are non-decreasing, the
\* lowest sampled value gets score 1 and the highest sampled value gets score
\* n_classes.
C6_LowestAndHighest ==
    IsSet(solar_score) =>
        /\ NonDecreasing(SolarBreaks)
        /\ ScoresOf(LowestSampled) = {1}
        /\ ScoresOf(HighestSampled) = {NClasses}

\* C6 amended: for any non-empty sample the breaks are non-decreasing and the
\* lowest sampled value gets score 1; the highest sampled value gets score
\* n_classes exactly when the two highest breaks differ, and otherwise the score
\* of the lowest class whose upper break equals it (score 1 when all sampled
\* values are equal).
C6_HighestUnlessPlateau ==
    IsSet(solar_score) =>
        /\ NonDecreasing(SolarBreaks)
        /\ ScoresOf(LowestSampled) = {1}
        /\ (ScoresOf(HighestSampled) = {NClasses})
              <=> (SolarBreaks[NClasses - 1] < SolarBreaks[NClasses])
        /\ ScoresOf(HighestSampled) =
              {Min({k \in 1..NClasses : SolarBreaks[k] = HighestSampled})}
        /\ (LowestSampled = HighestSampled) => ScoresOf(HighestSampled) = {1}

\* a sample of several cells with a plateau at the top has been classified, and
\* so has (in another cell) a lower value
C6_Witness ==
    /\ IsSet(solar_score)
    /\ Len(ValidValues(terrain.solar)) >= 3
    /\ LowestSampled < HighestSampled
    /\ SolarBreaks[NClasses - 1] = SolarBreaks[NClasses]
    /\ ScoresOf(HighestSampled) # {NClasses}

\* C10 as stated: with a non-empty sample the classification succeeds and
\* every cell of the score raster is NoData or a score in 1..n_classes, also
\* where the raster holds valid cells left out of the sample.
C10_SolarScoresInRange ==
    IsSet(solar_score) =>
        \A i \in DOMAIN solar_score : solar_score[i] \in (1..NClasses) \cup {NoData}

DataErrors == {"EmptySample"}

\* C8 as stated: a stage that fails with one of the data errors has written
\* none of its outputs.
C8_NoPartialOutput ==
    (failed # "none" /\ cause \in DataErrors) => AllOutputs(failed) \cap files = {}

IsPrefix(s, t) == Len(s) <= Len(t) /\ \A i \in 1..Len(s) : s[i] = t[i]

Result(stage) ==
    CASE stage = "slope" -> slope_score
      [] stage = "aspect" -> aspect_score
      [] stage = "solar" -> solar_score
      [] stage = "distance" -> distance_score
      [] stage = "overlay" -> suitability
      [] OTHER -> <<0>>

Returned(stage) == AllOutputs(stage) \subseteq files /\ IsSet(Result(stage))

Success == "Analysis completed successfully!"

\* C9: the stages start in the fixed order setup, check, slope, aspect, solar,
\* distance, overlay, zones, map; a stage has started only if every stage before
\* it has returned its complete result; once a stage has failed it is the last
\* stage started, main() is over and did not report success; success is
\* reported only after all nine stages.
C9_StageOrder ==
    /\ IsPrefix(started, StageOrder)
    /\ \A k \in 1..(Len(started) - 1) : Returned(started[k])
    /\ failed # "none" =>
          /\ pc = "done"
          /\ started # <<>> /\ started[Len(started)] = failed
          /\ message \in ErrorMessages
    /\ message = Success => (failed = "none" /\ started = StageOrder)

\* the solar stage failed on an empty sample after four stages had returned,
\* and the run is over
C9_Witness ==
    /\ failed = "solar"
    /\ cause = "EmptySample"
    /\ started = SubSeq(StageOrder, 1, 5)
    /\ pc = "done"

Inputs(i) == {slope_score[i], aspect_score[i], solar_score[i], distance_score[i]}

\* C3 as stated: after a successful overlay a cell is NoData if and only if at
\* least one criterion raster is NoData there.
C3_NoDataIffInput ==
    IsSet(suitability) =>
        \A i \in DOMAIN suitability :
            (suitability[i] = NoData) <=> (NoData \in Inputs(i))

\* C3 amended: after a successful overlay a cell is NoData if and only if at
\* least one criterion raster is NoData there or a mask was given and the cell
\* lies outside it; without a mask, NoData if and only if an input is NoData.
C3_NoDataIffInputOrMasked ==
    IsSet(suitability) =>
        \A i \in DOMAIN suitability :
            (suitability[i] = NoData)
                <=> (NoData \in Inputs(i) \/ (mask_path.given /\ i \notin mask_path.inside))

\* an overlay with a mask returned a cell that is NoData although all four
\* inputs are valid there
C3_Witness ==
    /\ IsSet(suitability)
    /\ mask_path.given
    /\ \E i \in DOMAIN suitability : suitability[i] = NoData /\ NoData \notin Inputs(i)

Kept(i) == ~mask_path.given \/ i \in mask_path.inside

====
